---- MODULE Spec2Model ----
(***************************************************************************)
(* Model of the Single-File VS Code extension (src/src/extension.ts).      *)
(*                                                                         *)
(* Strings are sequences of characters (one-character TLA+ strings), so    *)
(* that escaping, trimming, splitting and joining are computed and not     *)
(* assumed.  A literal of the program that user text cannot take apart     *)
(* ("--paths", "single-file", ...) is a sequence of one token.             *)
(***************************************************************************)
EXTENDS Integers, Sequences, FiniteSets, TLC

(***************************************************************************)
(* Bounds of the model.                                                    *)
(***************************************************************************)
\* number of user inputs (typing, picking in a dialog, selecting in the
\* Explorer) in one behaviour
MaxEdits == 2
\* number of run handlers (run form submissions, runLast) that can be in
\* flight or finished-and-not-yet-replaced at the same time
MaxJobs == 2

(***************************************************************************)
(* Strings.                                                                *)
(***************************************************************************)
Empty == << >>

Lit(tok) == << tok >>

IsSpace(ch) == ch \in {" ", "\t", "\n", "\r"}

\* String.prototype.trim
RECURSIVE TrimLeft(_)
TrimLeft(s) ==
  IF s # Empty /\ IsSpace(Head(s)) THEN TrimLeft(Tail(s)) ELSE s

RECURSIVE TrimRight(_)
TrimRight(s) ==
  IF s # Empty /\ IsSpace(s[Len(s)]) THEN TrimRight(SubSeq(s, 1, Len(s) - 1)) ELSE s

Trim(s) == TrimRight(TrimLeft(s))

\* Array.prototype.join: the elements lo..hi with the separator between
\* them, the range halved at every step
RECURSIVE JoinRange(_, _, _, _)
JoinRange(list, sep, lo, hi) ==
  IF lo = hi THEN list[lo]
  ELSE LET mid == (lo + hi) \div 2
       IN  JoinRange(list, sep, lo, mid) \o sep \o JoinRange(list, sep, mid + 1, hi)

Join(list, sep) ==
  IF list = << >> THEN Empty ELSE JoinRange(list, sep, 1, Len(list))

\* the separators of /[,\s]+/
IsSeparator(ch) == ch = "," \/ IsSpace(ch)

\* String.prototype.split(/[,\s]+/): a maximal run of separators ends the
\* current piece; a leading or trailing run leaves an empty piece
RECURSIVE SplitFrom(_, _, _, _)
SplitFrom(s, i, cur, out) ==
  IF i > Len(s) THEN Append(out, cur)
  ELSE IF IsSeparator(s[i])
       THEN IF i > 1 /\ IsSeparator(s[i - 1])
            THEN SplitFrom(s, i + 1, cur, out)
            ELSE SplitFrom(s, i + 1, Empty, Append(out, cur))
       ELSE SplitFrom(s, i + 1, Append(cur, s[i]), out)

SplitList(s) == SplitFrom(s, 1, Empty, << >>)

\* String.prototype.replace(/c/g, rep) for a one-character pattern
RECURSIVE ReplaceAll(_, _, _)
ReplaceAll(s, ch, rep) ==
  IF s = Empty THEN Empty
  ELSE (IF Head(s) = ch THEN rep ELSE << Head(s) >>) \o ReplaceAll(Tail(s), ch, rep)

\* String.prototype.replace(/\s+/g, ','): every maximal run of white space
\* becomes one comma
RECURSIVE ReplaceSpaceRuns(_, _)
ReplaceSpaceRuns(s, i) ==
  IF i > Len(s) THEN Empty
  ELSE IF IsSpace(s[i])
       THEN (IF i > 1 /\ IsSpace(s[i - 1]) THEN Empty ELSE << "," >>)
            \o ReplaceSpaceRuns(s, i + 1)
       ELSE << s[i] >> \o ReplaceSpaceRuns(s, i + 1)

Amp  == << "&", "a", "m", "p", ";" >>
Lt   == << "&", "l", "t", ";" >>
Gt   == << "&", "g", "t", ";" >>
Quot == << "&", "q", "u", "o", "t", ";" >>
Apos == << "&", "#", "3", "9", ";" >>

\* escapeHtml: five replacements in sequence, the ampersand first
escapeHtml(str) ==
  ReplaceAll(ReplaceAll(ReplaceAll(ReplaceAll(ReplaceAll(str,
    "&", Amp), "<", Lt), ">", Gt), "\"", Quot), "'", Apos)

IsPrefix(p, s) == Len(p) <= Len(s) /\ SubSeq(s, 1, Len(p)) = p

Drop(s, n) == SubSeq(s, n + 1, Len(s))

\* what the HTML parser makes of the text of an attribute value: the
\* character references are decoded
RECURSIVE HtmlDecode(_)
HtmlDecode(s) ==
  IF s = Empty THEN Empty
  ELSE IF IsPrefix(Amp, s)  THEN << "&" >>  \o HtmlDecode(Drop(s, Len(Amp)))
  ELSE IF IsPrefix(Lt, s)   THEN << "<" >>  \o HtmlDecode(Drop(s, Len(Lt)))
  ELSE IF IsPrefix(Gt, s)   THEN << ">" >>  \o HtmlDecode(Drop(s, Len(Gt)))
  ELSE IF IsPrefix(Quot, s) THEN << "\"" >> \o HtmlDecode(Drop(s, Len(Quot)))
  ELSE IF IsPrefix(Apos, s) THEN << "'" >>  \o HtmlDecode(Drop(s, Len(Apos)))
  ELSE << Head(s) >> \o HtmlDecode(Tail(s))

\* JSON.stringify of a string: the body of the literal, quotes left out
JsonStringify(s) ==
  ReplaceAll(ReplaceAll(s, "\\", << "\\", "\\" >>), "\"", << "\\", "\"" >>)

\* what the script engine makes of the body of a string literal: the text
\* of a script element is not HTML-decoded, only the escapes are read
RECURSIVE ScriptLiteral(_)
ScriptLiteral(s) ==
  IF s = Empty THEN Empty
  ELSE IF Head(s) = "\\" /\ Len(s) >= 2
       THEN << s[2] >> \o ScriptLiteral(Drop(s, 2))
       ELSE << Head(s) >> \o ScriptLiteral(Tail(s))

(***************************************************************************)
(* The two persisted records.                                              *)
(***************************************************************************)
\* the text fields of SingleFileWorkspaceState that hold a list
ListFields == {"extensions", "excludeExtensions", "metadataAdd", "metadataRemove",
               "excludeDirs", "excludeFiles", "includeDirs", "includeFiles",
               "disablePlugin"}
\* the text fields that hold one string
StringFields == {"outputFile", "config", "formats", "depth"}
\* the check boxes
FlagFields == {"ignoreErrors", "replaceInvalidChars", "forceBinaryContent"}

getFallbackGlobalDefaults ==
  [singleFileRoot |-> Empty, configRoots |-> << >>, pyenvVersion |-> Empty]

\* getFallbackWorkspaceState with a default put into formats: the variant
\* that property C10 tells apart from the function of the program
FallbackWithDefaultFormats ==
  [f \in StringFields \cup ListFields \cup FlagFields \cup {"paths"} |->
     IF f = "formats" THEN << "d" >>
     ELSE IF f \in FlagFields THEN FALSE
     ELSE << >>]

getFallbackWorkspaceState ==
  [outputFile |-> Empty, paths |-> << >>, config |-> Empty,
   extensions |-> << >>, excludeExtensions |-> << >>,
   ignoreErrors |-> FALSE, replaceInvalidChars |-> FALSE,
   formats |-> Empty, forceBinaryContent |-> FALSE,
   metadataAdd |-> << >>, metadataRemove |-> << >>,
   excludeDirs |-> << >>, excludeFiles |-> << >>,
   includeDirs |-> << >>, includeFiles |-> << >>,
   disablePlugin |-> << >>, depth |-> Empty]

\* Memento.get(key, defaultValue): a memento is << >> when nothing is stored
\* under the key and << value >> otherwise
MementoGet(memento, defaultValue) ==
  IF memento = << >> THEN defaultValue ELSE memento[1]

\* Memento.update(key, value)
MementoUpdate(value) == << value >>

getGlobalDefaults(memento) == MementoGet(memento, getFallbackGlobalDefaults)

getWorkspaceDefaults(memento) == MementoGet(memento, getFallbackWorkspaceState)

(***************************************************************************)
(* The environment and the command line of the external tool.              *)
(***************************************************************************)
EnvNames == {"PYENV_VERSION", "SINGLEFILE_CONFIG_PATH", "PATH"}

\* path.delimiter (POSIX)
PathDelimiter == << ":" >>

\* buildSingleFileEnv: a copy of process.env with up to two variables set;
\* a variable is << >> when absent and << value >> when set
buildSingleFileEnv(globals, penv) ==
  LET env1 == IF globals.pyenvVersion # Empty
              THEN [penv EXCEPT !["PYENV_VERSION"] = << globals.pyenvVersion >>]
              ELSE penv
  IN  IF Len(globals.configRoots) > 0
      THEN [env1 EXCEPT !["SINGLEFILE_CONFIG_PATH"] =
                           << Join(globals.configRoots, PathDelimiter) >>]
      ELSE env1

\* buildSingleFileEnv assigning into process.env itself and not into a
\* copy: the variant that property C9 tells apart
ProcessEnvAssigned(globals, penv) == buildSingleFileEnv(globals, penv)

\* process.env after buildSingleFileEnv: the function works on a spread copy
ProcessEnvAfterBuild(globals, penv) == penv

EndsWith(s, suffix) ==
  Len(suffix) <= Len(s) /\ SubSeq(s, Len(s) - Len(suffix) + 1, Len(s)) = suffix

\* String.prototype.replace(/^"(.*)"$/, '$1')
StripWrappingQuotes(s) ==
  IF Len(s) >= 2 /\ s[1] = "\"" /\ s[Len(s)] = "\""
  THEN SubSeq(s, 2, Len(s) - 1)
  ELSE s

\* path.normalize on the paths of the model: runs of "/" collapse
RECURSIVE CollapseSlashes(_, _)
CollapseSlashes(s, i) ==
  IF i > Len(s) THEN Empty
  ELSE IF s[i] = "/" /\ i > 1 /\ s[i - 1] = "/"
       THEN CollapseSlashes(s, i + 1)
       ELSE << s[i] >> \o CollapseSlashes(s, i + 1)

\* path.join(a, b) (POSIX), for non-empty a and b
PathJoin(a, b) == CollapseSlashes(a \o << "/" >> \o b, 1)

SingleFileName == Lit("single-file")

\* the script runSingleFileCLI hands to python
SingleFileExe(globals) ==
  IF globals.singleFileRoot = Empty THEN SingleFileName
  ELSE IF EndsWith(globals.singleFileRoot, SingleFileName)
       THEN StripWrappingQuotes(globals.singleFileRoot)
       ELSE PathJoin(globals.singleFileRoot, SingleFileName)

\* the option of every field
Flag == [outputFile |-> Lit("--output-file"), paths |-> Lit("--paths"),
         depth |-> Lit("--depth"), extensions |-> Lit("--extensions"),
         excludeExtensions |-> Lit("--exclude-extensions"),
         ignoreErrors |-> Lit("--ignore-errors"),
         replaceInvalidChars |-> Lit("--replace-invalid-chars"),
         formats |-> Lit("--formats"), config |-> Lit("--config"),
         forceBinaryContent |-> Lit("--force-binary-content"),
         metadataAdd |-> Lit("--metadata-add"),
         metadataRemove |-> Lit("--metadata-remove"),
         excludeDirs |-> Lit("--exclude-dirs"),
         excludeFiles |-> Lit("--exclude-files"),
         includeDirs |-> Lit("--include-dirs"),
         includeFiles |-> Lit("--include-files"),
         disablePlugin |-> Lit("--disable-plugin")]

\* if (args.f) cliArgs.push(flag, args.f)
PushString(args, f) ==
  IF args[f] # Empty THEN << Flag[f], args[f] >> ELSE << >>

\* the list pushed as one comma-separated argument, without the spread:
\* the variant that property C7 tells apart
PushListJoined(args, f) ==
  IF Len(args[f]) > 0 THEN << Flag[f], Join(args[f], << "," >>) >> ELSE << >>

\* if (args.f && args.f.length > 0) cliArgs.push(flag, ...args.f)
PushList(args, f) ==
  IF Len(args[f]) > 0 THEN << Flag[f] >> \o args[f] ELSE << >>

\* a check box pushed with its value, like a string field: the variant
\* that property C6 tells apart
PushFlagWithValue(args, f) ==
  IF args[f] THEN << Flag[f], Lit("true") >> ELSE << >>

\* if (args.f) cliArgs.push(flag)
PushFlag(args, f) ==
  IF args[f] THEN << Flag[f] >> ELSE << >>

\* if (args.formats) cliArgs.push('--formats', args.formats.replace(/\s+/g, ','))
PushFormats(args) ==
  IF args.formats # Empty
  THEN << Flag.formats, ReplaceSpaceRuns(args.formats, 1) >>
  ELSE << >>

\* step 2 of runSingleFileCLI
BuildCliArgs(args) ==
     PushString(args, "outputFile")
  \o PushList(args, "paths")
  \o PushString(args, "depth")
  \o PushList(args, "extensions")
  \o PushList(args, "excludeExtensions")
  \o PushFlag(args, "ignoreErrors")
  \o PushFlag(args, "replaceInvalidChars")
  \o PushFormats(args)
  \o PushString(args, "config")
  \o PushFlag(args, "forceBinaryContent")
  \o PushList(args, "metadataAdd")
  \o PushList(args, "metadataRemove")
  \o PushList(args, "excludeDirs")
  \o PushList(args, "excludeFiles")
  \o PushList(args, "includeDirs")
  \o PushList(args, "includeFiles")
  \o PushList(args, "disablePlugin")

\* step 4 of runSingleFileCLI
PythonArgs(globals, args) == << SingleFileExe(globals) >> \o BuildCliArgs(args)

\* the query taking a root that is set for the script in every case: the
\* variant that property C20 tells apart
QueryExeNeverJoined(globals) ==
  IF globals.singleFileRoot = Empty THEN SingleFileName
  ELSE StripWrappingQuotes(globals.singleFileRoot)

\* the script fetchQueryData hands to python
QuerySingleFileExe(globals) ==
  IF globals.singleFileRoot = Empty THEN SingleFileName
  ELSE IF EndsWith(globals.singleFileRoot, SingleFileName)
       THEN StripWrappingQuotes(globals.singleFileRoot)
       ELSE PathJoin(globals.singleFileRoot, SingleFileName)

\* the arguments of the --query call of fetchQueryData
QueryArgs(globals) ==
  << QuerySingleFileExe(globals), Lit("--query"), Lit("formats"), Lit("configs") >>

(***************************************************************************)
(* The run form: what the web view holds after loading the page that       *)
(* getRunPanelWebviewHTML builds, and what collectSettings makes of it.    *)
(***************************************************************************)
\* value="${escapeHtml(text)}" as the input element holds it
InputValue(text) == HtmlDecode(escapeHtml(text))

\* one element of  let paths = ${JSON.stringify(paths.map(escapeHtml))}
ScriptPath(p) == ScriptLiteral(JsonStringify(escapeHtml(p)))

\* the array of  JSON.stringify(list.map(escapeHtml))  as the script holds it
ScriptPaths(list) == [i \in 1..Len(list) |-> ScriptPath(list[i])]

Comma == << "," >>

getRunPanelWebviewHTML(wsDefaults) ==
  [f \in StringFields \cup ListFields \cup FlagFields \cup {"paths"} |->
     IF f \in StringFields THEN InputValue(wsDefaults[f])
     ELSE IF f \in ListFields THEN InputValue(Join(wsDefaults[f], Comma))
     ELSE IF f \in FlagFields THEN wsDefaults[f]
     ELSE ScriptPaths(wsDefaults.paths)]

\* raw ? raw.split(/[,\s]+/) : []
SplitField(raw) == IF raw # Empty THEN SplitList(raw) ELSE << >>

collectSettings(form) ==
  [f \in StringFields \cup ListFields \cup FlagFields \cup {"paths"} |->
     IF f \in StringFields THEN Trim(form[f])
     ELSE IF f \in ListFields THEN SplitField(Trim(form[f]))
     ELSE form[f]]

(***************************************************************************)
(* The inputs of the model.                                                *)
(***************************************************************************)
\* file system paths the Explorer and the file dialogs hand over
PathA == << "/", "a" >>
PathRnD == << "/", "R", "&", "D" >>

\* what the user types into the Single-File Root input
RootSamples == { << " ", "/", "o" >>,
                 << "\"", "/", "o", "/", "single-file", "\"" >> }

\* the inputs of the run form the user types into, and what is typed
TypedFields == {"formats", "extensions", "depth"}

TextSamples(f) ==
  IF f = "formats" THEN { << "j", ",", " ", "m" >> }
  ELSE IF f = "depth" THEN { << " ", "0" >> }
  ELSE { << ",", "t", ",", " ", "t" >> }

\* the lines `pyenv versions --bare` prints
PyenvStdout == << " ", "3.10", "\n", "\r", "\n", "3.11", "\n" >>

\* the configs the --query call reports
KnownConfig == [path |-> << "/", "k" >>, file |-> << "k" >>]

\* the inherited environment of the extension host: one that sets
\* PYENV_VERSION and one that sets SINGLEFILE_CONFIG_PATH
EnvWithPyenv ==
  [n \in EnvNames |-> IF n = "PATH" THEN << << "/", "b" >> >>
                      ELSE IF n = "PYENV_VERSION" THEN << << "2.7" >> >>
                      ELSE << >>]

EnvWithConfigPath ==
  [n \in EnvNames |-> IF n = "PATH" THEN << << "/", "b" >> >>
                      ELSE IF n = "PYENV_VERSION" THEN << >>
                      ELSE << << "/", "i" >> >>]

InheritedEnvs == { EnvWithPyenv, EnvWithConfigPath }

\* a path of a submitted form is no longer than this
MaxStrLen == 12

(***************************************************************************)
(* State.                                                                  *)
(***************************************************************************)
VARIABLES
  build,          \* which of the two versions of extension.ts is running
  processEnv,     \* process.env of the extension host
  globalState,    \* context.globalState, key singlefileGlobalDefaults
  workspaceState, \* context.workspaceState, key singlefileWorkspaceDefaults
  cfg,            \* the configuration panel and the call that opens it
  run,            \* the run panel and the call that opens it
  jobs,           \* the run handlers: runSingleFile messages and runLast
  out,            \* what the step just taken showed, logged and wrote
  edits,          \* number of user inputs so far
  lastSubmitted   \* history: the record of the last runSingleFile message

vars == << build, processEnv, globalState, workspaceState, cfg, run, jobs,
           out, edits, lastSubmitted >>

Range(seq) == { seq[i] : i \in 1..Len(seq) }

AllFields == StringFields \cup ListFields \cup FlagFields \cup {"paths"}

MsgConfigure    == "Please configure Single-File global defaults first."
MsgSaved        == "Single-File defaults saved."
MsgCompleted    == "Single-File run completed."
MsgFailed       == "Single-File run failed"
MsgLastStarted  == "Single-File (Last Settings) run started."
MsgConfigSaved  == "Saved config to"
MsgConfigFailed == "Failed to save config"

\* a step that shows, logs and writes nothing.  events: the notifications
\* shown and the appends to an output channel, in their order; kind and
\* logged: the handler that ended and the lines its output channel got;
\* file: the JSON object written; steps: the steps of the handler that
\* ended, in their order; exit: how the process of that handler ended
NoOut == [events |-> << >>, kind |-> "none", logged |-> << >>, file |-> << >>,
          steps |-> << >>, exit |-> << >>]

Shows(msg) == [NoOut EXCEPT !.events = << msg >>]

\* the steps of a run handler
StepPersist == "setWorkspaceDefaults"
StepInvoke  == "execFile"
StepLog     == "channel.appendLine"

LogStdout == "channel.appendLine(stdout)"
LogStderr == "channel.appendLine(stderr)"

NoEnv == [n \in EnvNames |-> << >>]

NoProc == [args |-> << >>, env |-> NoEnv]

EmptyCfgForm == [singleFileRoot |-> Empty, configRoots |-> << >>, pyenv |-> Empty]

ClosedCfg == [pc |-> "closed", current |-> getFallbackGlobalDefaults,
              form |-> EmptyCfgForm, versions |-> << >>]

ClosedRun == [pc |-> "closed", globals |-> getFallbackGlobalDefaults,
              wsDefaults |-> getFallbackWorkspaceState, selected |-> FALSE,
              query |-> NoProc,
              form |-> getRunPanelWebviewHTML(getFallbackWorkspaceState),
              knownConfigs |-> << >>]

IdleJob == [pc |-> "idle", kind |-> "none", attached |-> FALSE,
            globals |-> getFallbackGlobalDefaults,
            args |-> getFallbackWorkspaceState,
            proc |-> NoProc, channel |-> << >>, steps |-> << >>]

\* the extension is activated in a fresh installation
Init ==
  /\ build = 1
  /\ processEnv = EnvWithPyenv
  /\ globalState = << >>
  /\ workspaceState = << >>
  /\ cfg = ClosedCfg
  /\ run = ClosedRun
  /\ jobs = [j \in 1..MaxJobs |-> IdleJob]
  /\ out = NoOut
  /\ edits = 0
  /\ lastSubmitted = << >>

(***************************************************************************)
(* The configuration panel.                                                *)
(***************************************************************************)
\* String.prototype.split(/\r?\n/)
RECURSIVE SplitLinesFrom(_, _, _, _)
SplitLinesFrom(s, i, cur, acc) ==
  IF i > Len(s) THEN Append(acc, cur)
  ELSE IF s[i] = "\n" THEN SplitLinesFrom(s, i + 1, Empty, Append(acc, cur))
  ELSE IF s[i] = "\r" /\ i < Len(s) /\ s[i + 1] = "\n"
       THEN SplitLinesFrom(s, i + 2, Empty, Append(acc, cur))
  ELSE SplitLinesFrom(s, i + 1, Append(cur, s[i]), acc)

RECURSIVE FilterNonEmpty(_)
FilterNonEmpty(list) ==
  IF list = << >> THEN << >>
  ELSE (IF Head(list) # Empty THEN << Head(list) >> ELSE << >>)
       \o FilterNonEmpty(Tail(list))

\* .map(line => line.trim())
TrimLines(lines) == [i \in 1..Len(lines) |-> Trim(lines[i])]

\* fetchPyenvVersions without its filter of empty lines: the variant that
\* property C16 tells apart
fetchPyenvVersionsUnfiltered(error, stdout) ==
  IF error THEN << >>
  ELSE TrimLines(SplitLinesFrom(stdout, 1, Empty, << >>))

\* fetchPyenvVersions: what the promise resolves with
fetchPyenvVersions(error, stdout) ==
  IF error THEN << >>
  ELSE FilterNonEmpty(TrimLines(SplitLinesFrom(stdout, 1, Empty, << >>)))

\* the page of the configuration panel once loaded: the input, the list of
\* the script, and the value of the select (an option that exists, or '')
getGlobalConfigWebviewHTML(current, pyenvVersions) ==
  LET options   == ScriptPaths(pyenvVersions)
      userPyenv == ScriptLiteral(escapeHtml(current.pyenvVersion))
  IN  [singleFileRoot |-> InputValue(current.singleFileRoot),
       configRoots    |-> ScriptPaths(current.configRoots),
       pyenv          |-> IF userPyenv \in Range(options) THEN userPyenv ELSE Empty]

\* The user of the model does one thing at a time: the configuration panel
\* is opened while no run is in flight, and a run is started while the
\* configuration panel is closed.  The model holds one configuration panel
\* and one run panel: a command that opens a panel is taken while that panel
\* is closed.
NoRunInFlight == \A j \in 1..MaxJobs : jobs[j].pc = "idle"

\* showGlobalConfigPanel up to its await: the defaults are read and pyenv
\* is started
StartConfigPanel ==
  /\ NoRunInFlight
  /\ cfg' = [pc |-> "awaitPyenv", current |-> getGlobalDefaults(globalState),
          form |-> EmptyCfgForm, versions |-> << >>]

\* command singlefile.configureGlobalDefaults
CmdConfigure ==
  /\ cfg.pc = "closed"
  /\ StartConfigPanel
  /\ out' = NoOut
  /\ UNCHANGED << build, processEnv, globalState, workspaceState, run, jobs,
                  edits, lastSubmitted >>

\* pyenv exits: showGlobalConfigPanel creates the panel and sets its page
PyenvExit ==
  /\ cfg.pc = "awaitPyenv"
  /\ \E error \in BOOLEAN :
       LET versions == fetchPyenvVersions(error, PyenvStdout)
       IN  /\ cfg' = [cfg EXCEPT !.pc = "open",
                                 !.versions = ScriptPaths(versions),
                                 !.form = getGlobalConfigWebviewHTML(cfg.current, versions)]
           /\ out' = [NoOut EXCEPT !.kind = "pyenv",
                                   !.exit = << [error |-> error,
                                                stdout |-> PyenvStdout,
                                                versions |-> versions] >>]
  /\ UNCHANGED << build, processEnv, globalState, workspaceState, run, jobs,
                  edits, lastSubmitted >>

\* the user types into the Single-File Root input
TypeRoot ==
  /\ cfg.pc = "open" /\ edits < MaxEdits
  /\ \E text \in RootSamples : cfg' = [cfg EXCEPT !.form.singleFileRoot = text]
  /\ edits' = edits + 1
  /\ out' = NoOut
  /\ UNCHANGED << build, processEnv, globalState, workspaceState, run, jobs,
                  lastSubmitted >>

\* browseRoot storing the chosen root at once, without the Save button: the
\* variant that property C11 tells apart
BrowseRootSaves ==
  /\ cfg.pc = "open" /\ edits < MaxEdits
  /\ \E chosen \in { << >>, << PathA >> } :
       /\ edits' = IF Len(chosen) > 0 THEN edits + 1 ELSE edits
       /\ cfg' = IF Len(chosen) > 0
              THEN [cfg EXCEPT !.form.singleFileRoot = chosen[1]]
              ELSE cfg
       /\ globalState' = IF Len(chosen) > 0
                         THEN MementoUpdate([cfg.current EXCEPT
                                               !.singleFileRoot = chosen[1]])
                         ELSE globalState
  /\ out' = NoOut
  /\ UNCHANGED << build, processEnv, workspaceState, run, jobs,
                  lastSubmitted >>

\* message browseRoot: the dialog, and setSingleFileRoot when something was
\* chosen
BrowseRoot ==
  /\ cfg.pc = "open" /\ edits < MaxEdits
  /\ \E chosen \in { << >>, << PathA >> } :
       /\ edits' = IF Len(chosen) > 0 THEN edits + 1 ELSE edits
       /\ cfg' = IF Len(chosen) > 0
              THEN [cfg EXCEPT !.form.singleFileRoot = chosen[1]]
              ELSE cfg
  /\ out' = NoOut
  /\ UNCHANGED << build, processEnv, globalState, workspaceState, run, jobs,
                  lastSubmitted >>

\* message addConfigRoot: the dialog, and appendConfigRoot when something
\* was chosen
AddConfigRoot ==
  /\ cfg.pc = "open" /\ edits < MaxEdits
  /\ \E chosen \in { << >>, << << "/", "c" >> >> } :
       /\ edits' = IF Len(chosen) > 0 THEN edits + 1 ELSE edits
       /\ cfg' = IF Len(chosen) > 0
              THEN [cfg EXCEPT !.form.configRoots = Append(@, chosen[1])]
              ELSE cfg
  /\ out' = NoOut
  /\ UNCHANGED << build, processEnv, globalState, workspaceState, run, jobs,
                  lastSubmitted >>

RemoveAt(list, idx) == SubSeq(list, 1, idx - 1) \o SubSeq(list, idx + 1, Len(list))

\* the [X] button of a config root
RemoveConfigRoot ==
  /\ cfg.pc = "open" /\ edits < MaxEdits
  /\ \E idx \in 1..Len(cfg.form.configRoots) :
       cfg' = [cfg EXCEPT !.form.configRoots = RemoveAt(@, idx)]
  /\ edits' = edits + 1
  /\ out' = NoOut
  /\ UNCHANGED << build, processEnv, globalState, workspaceState, run, jobs,
                  lastSubmitted >>

\* the user picks another option of the pyenv select
SelectPyenv ==
  /\ cfg.pc = "open" /\ edits < MaxEdits
  /\ \E v \in Range(cfg.versions) \cup { Empty } :
       /\ v # cfg.form.pyenv
       /\ cfg' = [cfg EXCEPT !.form.pyenv = v]
  /\ edits' = edits + 1
  /\ out' = NoOut
  /\ UNCHANGED << build, processEnv, globalState, workspaceState, run, jobs,
                  lastSubmitted >>

\* the data of the saveDefaults message (the click handler of saveBtn)
SaveDefaultsData(form) ==
  [singleFileRoot |-> Trim(form.singleFileRoot),
   configRoots    |-> form.configRoots,
   pyenvVersion   |-> form.pyenv]

\* saveDefaults storing its record under both keys: the variant that
\* property C8 tells apart
SaveDefaultsBothStores ==
  /\ cfg.pc = "open"
  /\ globalState' = MementoUpdate(SaveDefaultsData(cfg.form))
  /\ workspaceState' = MementoUpdate(SaveDefaultsData(cfg.form))
  /\ out' = Shows(MsgSaved)
  /\ cfg' = ClosedCfg
  /\ UNCHANGED << build, processEnv, run, jobs, edits, lastSubmitted >>

\* message saveDefaults: the record is stored, the notification shown and
\* the panel disposed
SaveDefaults ==
  /\ cfg.pc = "open"
  /\ globalState' = MementoUpdate(SaveDefaultsData(cfg.form))
  /\ out' = Shows(MsgSaved)
  /\ cfg' = ClosedCfg
  /\ UNCHANGED << build, processEnv, workspaceState, run, jobs, edits,
                  lastSubmitted >>

\* the user closes the configuration panel
CloseConfigPanel ==
  /\ cfg.pc = "open"
  /\ cfg' = ClosedCfg
  /\ out' = NoOut
  /\ UNCHANGED << build, processEnv, globalState, workspaceState, run, jobs,
                  edits, lastSubmitted >>

(***************************************************************************)
(* The run panel.                                                          *)
(***************************************************************************)
\* the handler of singlefile.run: the multi-selection wins over the clicked
\* item; << >> stands for undefined
SelectedUris(uri, uris) ==
  IF Len(uris) > 0 THEN uris ELSE uri

\* what the Explorer and the command palette pass to singlefile.run
RunCommandInputs ==
  { [uri |-> << >>, uris |-> << >>],
    [uri |-> << PathA >>, uris |-> << >>],
    [uri |-> << PathA >>, uris |-> << PathRnD, PathA >>] }

\* "If singleFileRoot not set, prompt them to configure": the first version
\* of showSingleFileRunPanel has the test, the second has not
PromptsForConfiguration(version, globals) ==
  version = 1 /\ globals.singleFileRoot = Empty

\* step 3 of showSingleFileRunPanel
OverridePaths(wsDefaults, selectedUris) ==
  IF Len(selectedUris) > 0
  THEN [wsDefaults EXCEPT !.paths = selectedUris]
  ELSE wsDefaults

\* The memento after step 3.  The assignment of step 3 is to the object
\* Memento.get returned: when the host hands out the stored object itself
\* (shared), the stored record changes with it; when it hands out a copy, or
\* the fallback was returned, it does not.
MementoAfterOverride(memento, selectedUris, shared) ==
  IF shared /\ memento # << >> /\ Len(selectedUris) > 0
  THEN << OverridePaths(memento[1], selectedUris) >>
  ELSE memento

\* fetchQueryData: the process that is started
QueryProc(globals, penv) ==
  [args |-> QueryArgs(globals), env |-> buildSingleFileEnv(globals, penv)]

\* showSingleFileRunPanel up to its first await
ShowRunPanel(selectedUris) ==
  LET globals == getGlobalDefaults(globalState)
  IN  IF PromptsForConfiguration(build, globals)
      THEN /\ cfg.pc = "closed"
           /\ out' = Shows(MsgConfigure)
           /\ StartConfigPanel
           /\ UNCHANGED << run, workspaceState, processEnv >>
      ELSE /\ \E shared \in BOOLEAN :
                workspaceState' =
                  MementoAfterOverride(workspaceState, selectedUris, shared)
           /\ run' = [ClosedRun EXCEPT
                        !.pc = "awaitQuery",
                        !.globals = globals,
                        !.wsDefaults =
                           OverridePaths(getWorkspaceDefaults(workspaceState),
                                         selectedUris),
                        !.selected = Len(selectedUris) > 0,
                        !.query = QueryProc(globals, processEnv)]
           /\ processEnv' = ProcessEnvAfterBuild(globals, processEnv)
           /\ out' = NoOut
           /\ UNCHANGED cfg

\* command singlefile.run
CmdRun ==
  /\ run.pc = "closed"
  /\ \E input \in RunCommandInputs :
       LET selected == SelectedUris(input.uri, input.uris)
       IN  /\ Len(selected) > 0 => edits < MaxEdits
           /\ edits' = IF Len(selected) > 0 THEN edits + 1 ELSE edits
           /\ ShowRunPanel(selected)
  /\ UNCHANGED << build, globalState, jobs, lastSubmitted >>

\* the outcomes of `python single-file --query formats configs`
QueryOutcomes ==
  { [error |-> TRUE,  stdout |-> "garbage"],
    [error |-> FALSE, stdout |-> "garbage"],
    [error |-> FALSE, stdout |-> "null"],
    [error |-> FALSE, stdout |-> "{}"],
    [error |-> FALSE, stdout |-> "{formats}"],
    [error |-> FALSE, stdout |-> "{configs}"],
    [error |-> FALSE, stdout |-> "{formats,configs}"] }

\* fetchQueryData handing on what the parsed output holds, without the
\* `|| {}` and `|| []`: the variant that property C21 tells apart
fetchQueryDataUndefaulted(outcome) ==
  IF outcome.error \/ outcome.stdout \in {"garbage", "null"}
  THEN [formats |-> << >>, configs |-> << >>]
  ELSE [formats |-> IF outcome.stdout \in {"{formats}", "{formats,configs}"}
                    THEN << Lit("json") >> ELSE << Lit("undefined") >>,
        configs |-> IF outcome.stdout \in {"{configs}", "{formats,configs}"}
                    THEN << KnownConfig >> ELSE << Lit("undefined") >>]

\* fetchQueryData: what the promise resolves with.  JSON.parse throws on
\* garbage, and reading data.formats throws on null; both are caught.
\* Otherwise  data.formats || {}  and  data.configs || [].
fetchQueryData(outcome) ==
  IF outcome.error \/ outcome.stdout \in {"garbage", "null"}
  THEN [formats |-> << >>, configs |-> << >>]
  ELSE [formats |-> IF outcome.stdout \in {"{formats}", "{formats,configs}"}
                    THEN << Lit("json") >> ELSE << >>,
        configs |-> IF outcome.stdout \in {"{configs}", "{formats,configs}"}
                    THEN << KnownConfig >> ELSE << >>]

\* the query process exits: the panel is created and its page set
QueryExit ==
  /\ run.pc = "awaitQuery"
  /\ \E outcome \in QueryOutcomes :
       LET data == fetchQueryData(outcome)
       IN  /\ run' = [run EXCEPT !.pc = "open",
                                 !.form = getRunPanelWebviewHTML(run.wsDefaults),
                                 !.knownConfigs = data.configs]
           /\ out' = [NoOut EXCEPT !.kind = "query",
                                   !.exit = << [error |-> outcome.error,
                                                stdout |-> outcome.stdout,
                                                data |-> data] >>]
  /\ UNCHANGED << build, processEnv, globalState, workspaceState, cfg, jobs,
                  edits, lastSubmitted >>

\* the run panel after a user input
Edited(f, value) == [run EXCEPT !.form[f] = value]

\* the user types into a text input of the run form, or clears it
TypeField ==
  /\ run.pc = "open" /\ edits < MaxEdits
  /\ \E f \in TypedFields :
       \E text \in TextSamples(f) \cup { Empty } :
         /\ text # run.form[f]
         /\ run' = Edited(f, text)
  /\ edits' = edits + 1
  /\ out' = NoOut
  /\ UNCHANGED << build, processEnv, globalState, workspaceState, cfg, jobs,
                  lastSubmitted >>

\* the user clicks a check box
ToggleFlag ==
  /\ run.pc = "open" /\ edits < MaxEdits
  /\ \E f \in FlagFields : run' = Edited(f, ~run.form[f])
  /\ edits' = edits + 1
  /\ out' = NoOut
  /\ UNCHANGED << build, processEnv, globalState, workspaceState, cfg, jobs,
                  lastSubmitted >>

\* the [X] button of a path; it only shortens the list, and is not counted
\* as an input.  The user of the model removes paths while no run is in
\* flight.
RemovePath ==
  /\ run.pc = "open" /\ NoRunInFlight
  /\ \E idx \in 1..Len(run.form.paths) :
       run' = Edited("paths", RemoveAt(run.form.paths, idx))
  /\ out' = NoOut
  /\ UNCHANGED << build, processEnv, globalState, workspaceState, cfg, jobs,
                  edits, lastSubmitted >>

\* message browseAddPath: the dialog (<< >> when cancelled) and one addPath
\* message for every chosen item
BrowseAddPath ==
  /\ run.pc = "open" /\ edits < MaxEdits
  /\ \E chosen \in { << >>, << PathRnD, PathA >> } :
       /\ edits' = IF Len(chosen) > 0 THEN edits + 1 ELSE edits
       /\ run' = Edited("paths", run.form.paths \o chosen)
  /\ out' = NoOut
  /\ UNCHANGED << build, processEnv, globalState, workspaceState, cfg, jobs,
                  lastSubmitted >>

\* message browseOutputFile: the save dialog, and setOutputFile when a file
\* was chosen
BrowseOutputFile ==
  /\ run.pc = "open" /\ edits < MaxEdits
  /\ \E chosen \in { << >>, << PathA >> } :
       /\ edits' = IF Len(chosen) > 0 THEN edits + 1 ELSE edits
       /\ run' = IF Len(chosen) > 0 THEN Edited("outputFile", chosen[1]) ELSE run
  /\ out' = NoOut
  /\ UNCHANGED << build, processEnv, globalState, workspaceState, cfg, jobs,
                  lastSubmitted >>

\* message browseConfigFile: the open dialog, and setConfigFile when a file
\* was chosen
BrowseConfigFile ==
  /\ run.pc = "open" /\ edits < MaxEdits
  /\ \E chosen \in { << >>, << PathA >> } :
       /\ edits' = IF Len(chosen) > 0 THEN edits + 1 ELSE edits
       /\ run' = IF Len(chosen) > 0 THEN Edited("config", chosen[1]) ELSE run
  /\ out' = NoOut
  /\ UNCHANGED << build, processEnv, globalState, workspaceState, cfg, jobs,
                  lastSubmitted >>

\* the Known Configs select changes: message selectKnownConfig and the
\* setConfigFile it answers with
SelectKnownConfig ==
  /\ run.pc = "open" /\ edits < MaxEdits
  /\ \E c \in Range(run.knownConfigs) : run' = Edited("config", c.path)
  /\ edits' = edits + 1
  /\ out' = NoOut
  /\ UNCHANGED << build, processEnv, globalState, workspaceState, cfg, jobs,
                  lastSubmitted >>

\* the user closes the run panel; handlers in flight go on without it
CloseRunPanel ==
  /\ run.pc = "open"
  /\ run' = ClosedRun
  /\ jobs' = [j \in 1..MaxJobs |-> [jobs[j] EXCEPT !.attached = FALSE]]
  /\ out' = NoOut
  /\ UNCHANGED << build, processEnv, globalState, workspaceState, cfg,
                  edits, lastSubmitted >>

(***************************************************************************)
(* The run handlers.                                                       *)
(***************************************************************************)
\* the slots no handler is running in
FreeJobs == { j \in 1..MaxJobs : jobs[j].pc = "idle" }

FirstFreeJob == CHOOSE j \in FreeJobs : \A k \in FreeJobs : j <= k

EnvOrEmpty(v) == IF v = << >> THEN Empty ELSE v[1]

\* runSingleFileCLI up to execFile: the command line and the environment
StartProc(globals, args, penv) ==
  [args |-> PythonArgs(globals, args), env |-> buildSingleFileEnv(globals, penv)]

\* the lines the new output channel starts with
ChannelHeader(proc) ==
  << Lit("Running Single-File via:"),
     Lit("  python ") \o Join(proc.args, << " " >>),
     Lit("with env: ") \o EnvOrEmpty(proc.env["PYENV_VERSION"]) \o << ";" >>
                       \o EnvOrEmpty(proc.env["SINGLEFILE_CONFIG_PATH"]),
     Empty >>

\* message runSingleFile with the order of the specification text, the
\* process started before anything is stored: the variant that property C4
\* tells apart
RunSubmitInvokesFirst ==
  /\ run.pc = "open" /\ cfg.pc = "closed"
  /\ FreeJobs # {}
  /\ LET data == collectSettings(run.form)
         proc == StartProc(run.globals, data, processEnv)
     IN  /\ \A i \in 1..Len(data.paths) : Len(data.paths[i]) <= MaxStrLen
         /\ lastSubmitted' = << data >>
         /\ jobs' = [jobs EXCEPT ![FirstFreeJob] =
                       [IdleJob EXCEPT !.pc = "awaitExec", !.kind = "panel",
                                       !.attached = TRUE,
                                       !.globals = run.globals,
                                       !.args = data,
                                       !.proc = proc,
                                       !.channel = ChannelHeader(proc),
                                       !.steps = << StepInvoke >>]]
  /\ out' = NoOut
  /\ UNCHANGED << build, processEnv, globalState, workspaceState, cfg, run,
                  edits >>

\* message runSingleFile, up to `await setWorkspaceDefaults(context, args)`:
\* Memento.update has replaced the stored value when it returns its promise
RunSubmit ==
  /\ run.pc = "open" /\ cfg.pc = "closed"
  /\ FreeJobs # {}
  /\ LET data == collectSettings(run.form)
     IN  /\ \A i \in 1..Len(data.paths) : Len(data.paths[i]) <= MaxStrLen
         /\ workspaceState' = MementoUpdate(data)
         /\ lastSubmitted' = << data >>
         /\ jobs' = [jobs EXCEPT ![FirstFreeJob] =
                       [IdleJob EXCEPT !.pc = "awaitSave", !.kind = "panel",
                                       !.attached = TRUE,
                                       !.globals = run.globals,
                                       !.args = data,
                                       !.steps = << StepPersist >>]]
  /\ out' = NoOut
  /\ UNCHANGED << build, processEnv, globalState, cfg, run, edits >>

\* the promise of setWorkspaceDefaults resolves: runSingleFileCLI is called
\* with the globals the panel was opened with, and starts the process
SaveResolved(j) ==
  /\ jobs[j].pc = "awaitSave"
  /\ LET proc == StartProc(jobs[j].globals, jobs[j].args, processEnv)
     IN  jobs' = [jobs EXCEPT ![j].pc = "awaitExec",
                              ![j].proc = proc,
                              ![j].channel = ChannelHeader(proc),
                              ![j].steps = Append(@, StepInvoke)]
  /\ processEnv' = ProcessEnvAfterBuild(jobs[j].globals, processEnv)
  /\ out' = NoOut
  /\ UNCHANGED << build, globalState, workspaceState, cfg, run, edits,
                  lastSubmitted >>

\* how the external process can end
ExecOutcomes ==
  { [error |-> FALSE, stdout |-> Empty,      stderr |-> Empty],
    [error |-> FALSE, stdout |-> Lit("out"), stderr |-> Lit("warn")],
    [error |-> TRUE,  stdout |-> Lit("out"), stderr |-> Lit("err")] }

\* the callback returning on an error before it appends anything: the
\* variant that property C14 tells apart
ChannelAfterFailure(channel, outcome) ==
  IF outcome.error THEN channel
  ELSE channel
       \o (IF outcome.stdout # Empty THEN << outcome.stdout >> ELSE << >>)
       \o (IF outcome.stderr # Empty THEN << outcome.stderr >> ELSE << >>)

\* the callback of execFile: what is appended to the channel
ChannelAfterExit(channel, outcome) ==
  channel
  \o (IF outcome.stdout # Empty THEN << outcome.stdout >> ELSE << >>)
  \o (IF outcome.stderr # Empty THEN << outcome.stderr >> ELSE << >>)

\* the handler carrying on after a rejected promise: the variant that
\* property C17 tells apart
ExitEventsIgnoringError(kind, outcome) ==
     (IF outcome.stdout # Empty THEN << LogStdout >> ELSE << >>)
  \o (IF outcome.stderr # Empty THEN << LogStderr >> ELSE << >>)
  \o (IF outcome.error THEN << MsgFailed >> ELSE << >>)
  \o (IF kind = "panel" THEN << MsgCompleted >> ELSE << MsgLastStarted >>)

\* a failure that rejects the promise without telling the user: the variant
\* that property C22 tells apart
ExitEventsSilentFailure(kind, outcome) ==
     (IF outcome.stdout # Empty THEN << LogStdout >> ELSE << >>)
  \o (IF outcome.stderr # Empty THEN << LogStderr >> ELSE << >>)
  \o (IF outcome.error THEN << >>
      ELSE IF kind = "panel" THEN << MsgCompleted >>
      ELSE << MsgLastStarted >>)

\* the callback of execFile and what the handler does after it, in order.
\* On an error the promise is rejected and the handler ends there; otherwise
\* the run panel handler shows its notification (and disposes the panel),
\* and runLast shows its notification.
ExitEvents(kind, outcome) ==
     (IF outcome.stdout # Empty THEN << LogStdout >> ELSE << >>)
  \o (IF outcome.stderr # Empty THEN << LogStderr >> ELSE << >>)
  \o (IF outcome.error THEN << MsgFailed >>
      ELSE IF kind = "panel" THEN << MsgCompleted >>
      ELSE << MsgLastStarted >>)

\* the external process of a handler exits; panel.dispose() leaves the other
\* handlers of the panel without it
ExecExit(j) ==
  /\ jobs[j].pc = "awaitExec"
  /\ \E outcome \in ExecOutcomes :
       /\ out' = [events  |-> ExitEvents(jobs[j].kind, outcome),
                  kind    |-> jobs[j].kind,
                  logged  |-> Drop(ChannelAfterExit(jobs[j].channel, outcome),
                                   Len(jobs[j].channel)),
                  file    |-> << >>,
                  exit    |-> << outcome >>,
                  steps   |-> jobs[j].steps
                              \o (IF outcome.stdout # Empty \/ outcome.stderr # Empty
                                  THEN << StepLog >> ELSE << >>)]
       /\ LET disposes == ~outcome.error /\ jobs[j].kind = "panel"
                           /\ jobs[j].attached
          IN  /\ run' = IF disposes THEN ClosedRun ELSE run
              /\ jobs' = [k \in 1..MaxJobs |->
                            IF k = j THEN IdleJob
                            ELSE IF disposes
                                 THEN [jobs[k] EXCEPT !.attached = FALSE]
                                 ELSE jobs[k]]
  /\ UNCHANGED << build, processEnv, globalState, workspaceState, cfg,
                  edits, lastSubmitted >>

\* runLast running the fallback record and not what is stored: the variant
\* that property C3 tells apart
RunLastFallback(memento) == getFallbackWorkspaceState

\* "Use last workspace defaults exactly, do not override paths"
RunLastSettings(memento) == getWorkspaceDefaults(memento)

\* command singlefile.runLast (the first version of the file only)
CmdRunLast ==
  /\ build = 1
  /\ LET globals == getGlobalDefaults(globalState)
     IN  IF globals.singleFileRoot = Empty
         THEN /\ cfg.pc = "closed"
              /\ out' = Shows(MsgConfigure)
              /\ StartConfigPanel
              /\ UNCHANGED << jobs, processEnv >>
         ELSE /\ FreeJobs # {} /\ cfg.pc = "closed"
              /\ LET wsDefaults == RunLastSettings(workspaceState)
                     proc == StartProc(globals, wsDefaults, processEnv)
                 IN  jobs' = [jobs EXCEPT ![FirstFreeJob] =
                                [IdleJob EXCEPT !.pc = "awaitExec",
                                                !.kind = "last",
                                                !.globals = globals,
                                                !.args = wsDefaults,
                                                !.proc = proc,
                                                !.channel = ChannelHeader(proc),
                                                !.steps = << StepInvoke >>]]
              /\ processEnv' = ProcessEnvAfterBuild(globals, processEnv)
              /\ out' = NoOut
              /\ UNCHANGED cfg
  /\ UNCHANGED << build, globalState, workspaceState, run, edits,
                  lastSubmitted >>

\* the keys of a saved config and the fields they come from
ConfigKeys ==
  [paths |-> "paths", depth |-> "depth", output_file |-> "outputFile",
   formats |-> "formats", extensions |-> "extensions",
   exclude_extensions |-> "excludeExtensions", exclude_dirs |-> "excludeDirs",
   exclude_files |-> "excludeFiles", include_dirs |-> "includeDirs",
   include_files |-> "includeFiles", metadata_add |-> "metadataAdd",
   metadata_remove |-> "metadataRemove", config |-> "config",
   disable_plugin |-> "disablePlugin",
   replace_invalid_chars |-> "replaceInvalidChars",
   force_binary_content |-> "forceBinaryContent",
   ignore_errors |-> "ignoreErrors"]

\* the test without its array part, `if (value)`, under which an empty
\* list counts as set: the variant that property C12 tells apart
IsSetTruthy(args, f) ==
  IF f \in FlagFields THEN args[f]
  ELSE IF f \in StringFields THEN args[f] # Empty
  ELSE TRUE

\* value && (!Array.isArray(value) || value.length > 0)
IsSet(args, f) ==
  IF f \in FlagFields THEN args[f]
  ELSE IF f \in StringFields THEN args[f] # Empty
  ELSE Len(args[f]) > 0

\* the object that is written as JSON
ConfigData(args) ==
  [k \in { key \in DOMAIN ConfigKeys : IsSet(args, ConfigKeys[key]) } |->
     args[ConfigKeys[k]]]

\* saveAsConfig also storing the settings as the per-project record, as
\* the Run button does: the variant that property C13 tells apart
SaveAsConfigPersists ==
  /\ run.pc = "open"
  /\ \E dest \in BOOLEAN, written \in BOOLEAN :
       LET args == collectSettings(run.form)
       IN  /\ out' = IF ~dest THEN NoOut
                     ELSE IF written
                          THEN [NoOut EXCEPT !.events = << MsgConfigSaved >>,
                                             !.file = << ConfigData(args) >>]
                          ELSE Shows(MsgConfigFailed)
           /\ workspaceState' = IF dest THEN MementoUpdate(args)
                                ELSE workspaceState
  /\ UNCHANGED << build, processEnv, globalState, cfg, run, jobs, edits,
                  lastSubmitted >>

\* message saveAsConfig: the save dialog, and when a file was chosen the
\* write and the notification of its outcome
SaveAsConfig ==
  /\ run.pc = "open"
  /\ \E dest \in BOOLEAN, written \in BOOLEAN :
       LET args == collectSettings(run.form)
       IN  out' = IF ~dest THEN NoOut
                  ELSE IF written
                       THEN [NoOut EXCEPT !.events = << MsgConfigSaved >>,
                                          !.file = << ConfigData(args) >>]
                       ELSE Shows(MsgConfigFailed)
  /\ UNCHANGED << build, processEnv, globalState, workspaceState, cfg, run,
                  jobs, edits, lastSubmitted >>

(***************************************************************************)
(* The specification.                                                      *)
(***************************************************************************)
Next ==
  \/ CmdConfigure
  \/ PyenvExit
  \/ TypeRoot
  \/ BrowseRoot
  \/ AddConfigRoot
  \/ RemoveConfigRoot
  \/ SelectPyenv
  \/ SaveDefaults
  \/ CloseConfigPanel
  \/ CmdRun
  \/ QueryExit
  \/ TypeField
  \/ ToggleFlag
  \/ RemovePath
  \/ BrowseAddPath
  \/ BrowseOutputFile
  \/ BrowseConfigFile
  \/ SelectKnownConfig
  \/ CloseRunPanel
  \/ RunSubmit
  \/ \E j \in 1..MaxJobs : SaveResolved(j)
  \/ \E j \in 1..MaxJobs : ExecExit(j)
  \/ CmdRunLast
  \/ SaveAsConfig

\* the first version of extension.ts in a fresh installation
Spec == Init /\ [][Next]_vars

(***************************************************************************)
(* The second version of extension.ts, in a fresh installation or with     *)
(* global defaults an earlier session stored: it has no singlefile.runLast,*)
(* and the user of this specification configures the root by typing only.  *)
(***************************************************************************)
\* the stored global defaults
GlobalSamples ==
  { [singleFileRoot |-> << "/", "o" >>, configRoots |-> << >>,
     pyenvVersion |-> Empty],
    [singleFileRoot |-> << "/", "o", "/", "single-file" >>,
     configRoots |-> << << "/", "c" >>, << "/", "d" >> >>,
     pyenvVersion |-> Lit("3.10")] }

InitOld ==
  /\ build = 2
  /\ processEnv = EnvWithPyenv
  /\ globalState \in { << >> } \cup { << g >> : g \in GlobalSamples }
  /\ workspaceState = << >>
  /\ cfg = ClosedCfg
  /\ run = ClosedRun
  /\ jobs = [j \in 1..MaxJobs |-> IdleJob]
  /\ out = NoOut
  /\ edits = 0
  /\ lastSubmitted = << >>

NextOld ==
  \/ CmdConfigure
  \/ PyenvExit
  \/ TypeRoot
  \/ SaveDefaults
  \/ CloseConfigPanel
  \/ CmdRun
  \/ QueryExit
  \/ CloseRunPanel
  \/ RunSubmit
  \/ \E j \in 1..MaxJobs : SaveResolved(j)
  \/ \E j \in 1..MaxJobs : ExecExit(j)

SpecOld == InitOld /\ [][NextOld]_vars

(***************************************************************************)
(* A later session of the first version: both records were persisted by    *)
(* earlier sessions, and the user runs what is stored, or saves it as a    *)
(* config, without editing it.                                             *)
(***************************************************************************)
\* a list as collectSettings stores it: ",t,t" splits into these
SampleList == << Empty, << "t" >>, << "t" >> >>

\* a value of every field as an earlier session could have stored it
SampleValue(f) ==
  IF f = "formats" THEN << "j", ",", " ", "m" >>
  ELSE IF f = "depth" THEN << "0" >>
  ELSE IF f \in StringFields THEN << "/", "o" >>
  ELSE IF f \in FlagFields THEN TRUE
  ELSE IF f = "paths" THEN << PathA, << "/", "b", " ", "c" >>, PathA >>
  ELSE SampleList

\* the stored records: one field set, every field set, and a path with "&"
StoredSamples ==
  { [getFallbackWorkspaceState EXCEPT ![f] = SampleValue(f)] : f \in AllFields }
  \cup { [f \in AllFields |-> SampleValue(f)] }
  \cup { [getFallbackWorkspaceState EXCEPT !.paths = << PathRnD >>] }

InitSession ==
  /\ build = 1
  /\ processEnv \in InheritedEnvs
  /\ globalState \in { << g >> : g \in GlobalSamples }
  /\ workspaceState \in { << >> } \cup { << r >> : r \in StoredSamples }
  /\ cfg = ClosedCfg
  /\ run = ClosedRun
  /\ jobs = [j \in 1..MaxJobs |-> IdleJob]
  /\ out = NoOut
  /\ edits = MaxEdits
  /\ lastSubmitted = << >>

NextSession ==
  \/ CmdRun
  \/ QueryExit
  \/ CloseRunPanel
  \/ RunSubmit
  \/ \E j \in 1..MaxJobs : SaveResolved(j)
  \/ \E j \in 1..MaxJobs : ExecExit(j)
  \/ CmdRunLast
  \/ SaveAsConfig

SpecSession == InitSession /\ [][NextSession]_vars

\* the later sessions that start with the second global defaults and with
\* nothing, or three paths, in the per-project store
InitSessionFair ==
  /\ InitSession
  /\ processEnv = EnvWithPyenv
  /\ globalState[1].pyenvVersion # Empty
  /\ \/ workspaceState = << >>
     \/ workspaceState =
          << [getFallbackWorkspaceState EXCEPT !.paths = SampleValue("paths")] >>

\* such a session when every write of the per-project store completes and
\* every external process that was started exits: the promise of
\* Memento.update and the callback of execFile are not held back forever
SpecSessionFair ==
  /\ InitSessionFair /\ [][NextSession]_vars
  /\ \A j \in 1..MaxJobs : /\ WF_vars(SaveResolved(j))
                            /\ WF_vars(ExecExit(j))

(***************************************************************************)
(* Properties.                                                             *)
(***************************************************************************)
\* the root of the stored global defaults
StoredRoot == getGlobalDefaults(globalState).singleFileRoot

\* the slots a panel handler, or a runLast handler, is running in
PanelJobs == { j \in 1..MaxJobs : jobs[j].kind = "panel" }
LastJobs  == { j \in 1..MaxJobs : jobs[j].kind = "last" }

\* C1: once the run form has been submitted, the persisted per-project
\* record is the record of the last submission at every later moment, so
\* that every later read (singlefile.run, singlefile.runLast) observes it,
\* whatever the outcome of the external process
C1_SubmittedRecordStays ==
  lastSubmitted # << >> => workspaceState = << lastSubmitted[1] >>

\* C2: singlefile.run or singlefile.runLast with an empty stored
\* singleFileRoot shows the prompt and opens the configuration panel, and
\* creates no run panel and launches nothing (no --query call, no run)
C2_EmptyRootOnlyPrompts ==
  [][ StoredRoot = Empty /\ (CmdRun \/ CmdRunLast)
      => /\ out'.events = << MsgConfigure >>
         /\ cfg.pc = "closed" /\ cfg'.pc = "awaitPyenv"
         /\ run' = run
         /\ jobs' = jobs ]_vars

\* C3: singlefile.runLast with a configured root launches the tool with
\* the script path followed by the arguments of the record stored at that
\* moment (of the all-empty record when nothing is stored); neither it nor
\* the end of its process creates or changes a panel, and neither writes
\* to the per-project or to the global store
C3_RunLastRunsStored ==
  [][ /\ CmdRunLast /\ StoredRoot # Empty
         => /\ \E j \in 1..MaxJobs :
                 /\ jobs[j].pc = "idle"
                 /\ jobs'[j].pc = "awaitExec" /\ jobs'[j].kind = "last"
                 /\ jobs'[j].proc.args =
                      << SingleFileExe(globalState[1]) >>
                      \o BuildCliArgs(IF workspaceState = << >>
                                      THEN getFallbackWorkspaceState
                                      ELSE workspaceState[1])
                 /\ \A k \in 1..MaxJobs \ {j} : jobs'[k] = jobs[k]
            /\ run' = run /\ cfg' = cfg
            /\ workspaceState' = workspaceState /\ globalState' = globalState
      /\ (\E j \in LastJobs : ExecExit(j))
         => /\ run' = run /\ cfg' = cfg
            /\ workspaceState' = workspaceState /\ globalState' = globalState
    ]_vars

\* C3 happens: a runLast process is running on a stored record with paths
C3_Witness ==
  \E j \in LastJobs :
    /\ jobs[j].pc = "awaitExec"
    /\ workspaceState # << >>
    /\ Len(workspaceState[1].paths) > 0
    /\ jobs[j].args = workspaceState[1]

\* C4, as the specification text has it: a handler of a run form submission
\* invokes the process, then logs its output, then persists the settings
C4_InvokeLogPersist ==
  /\ \A j \in PanelJobs :
       IsPrefix(jobs[j].steps, << StepInvoke, StepLog, StepPersist >>)
  /\ out.kind = "panel"
       => IsPrefix(out.steps, << StepInvoke, StepLog, StepPersist >>)

\* C4, as the program has it: a handler of a run form submission first
\* persists the submitted settings, then invokes the process, then logs the
\* output of the process.  While the store is awaited no process has been
\* started, and the handler that ends has logged when there was output.
C4_PersistInvokeLog ==
  /\ \A j \in PanelJobs :
       /\ jobs[j].pc = "awaitSave"
            => jobs[j].steps = << StepPersist >> /\ jobs[j].proc = NoProc
       /\ jobs[j].pc = "awaitExec"
            => /\ jobs[j].steps = << StepPersist, StepInvoke >>
               /\ jobs[j].proc.args = PythonArgs(jobs[j].globals, jobs[j].args)
  /\ out.kind = "panel"
       => /\ IsPrefix(out.steps, << StepPersist, StepInvoke, StepLog >>)
          /\ Len(out.steps) >= 2
          /\ (Len(out.steps) = 3) = (out.logged # << >>)

\* C4 happens: a handler of a submission has ended with logged output
C4_Witness ==
  /\ out.kind = "panel"
  /\ out.steps = << StepPersist, StepInvoke, StepLog >>
  /\ lastSubmitted # << >>

\* C5: pressing Run in a form that was opened without a selection and not
\* edited persists the record the form was filled from, in every field
C5_FormRoundTrip ==
  [][ /\ RunSubmit
      /\ ~run.selected
      /\ run.form = getRunPanelWebviewHTML(run.wsDefaults)
      => workspaceState' = << run.wsDefaults >> ]_vars

\* the handlers whose external process is running
Launched == { j \in 1..MaxJobs : jobs[j].pc = "awaitExec" }

\* the record with every string '', every list [] and every flag false
AllEmptyRecord ==
  [f \in AllFields |-> IF f \in FlagFields THEN FALSE ELSE << >>]

\* a field is non-empty (a string or a list) or true (a flag)
FieldGiven(args, f) == IF f \in FlagFields THEN args[f] ELSE args[f] # << >>

AllFlags == { Flag[f] : f \in AllFields }

\* the argument at position i is the last one or is followed by an option
EndsAt(line, i) == i = Len(line) \/ line[i + 1] \in AllFlags

\* C6: in the argument list of every process runSingleFileCLI starts, the
\* option of a field is present exactly when the field is non-empty or
\* true, the option of a check box has no value after it, and the all-empty
\* record gives the script path alone
C6_FlagIffFieldGiven ==
  \A j \in Launched :
    LET args == jobs[j].args
        line == jobs[j].proc.args
    IN  /\ line[1] = SingleFileExe(jobs[j].globals)
        /\ \A f \in AllFields :
             (\E i \in 2..Len(line) : line[i] = Flag[f]) <=> FieldGiven(args, f)
        /\ \A f \in FlagFields :
             \A i \in 2..Len(line) : line[i] = Flag[f] => EndsAt(line, i)
        /\ args = AllEmptyRecord => Len(line) = 1

\* C6 happens: a process runs on a record that sets one check box and
\* nothing else, with the script path and the option of the box
C6_Witness ==
  \E j \in Launched :
    /\ jobs[j].args = [AllEmptyRecord EXCEPT !.ignoreErrors = TRUE]
    /\ jobs[j].proc.args = << SingleFileExe(jobs[j].globals), Flag.ignoreErrors >>

\* C7: in the argument list of every process runSingleFileCLI starts, the
\* elements of a non-empty list field stand right after the option of the
\* field, one argument each, in the order and number of the record, and the
\* next argument (if any) is another option; the option occurs once
C7_ListAfterItsFlag ==
  \A j \in Launched :
    LET args == jobs[j].args
        line == jobs[j].proc.args
    IN  \A f \in ListFields \cup {"paths"} :
          Len(args[f]) > 0 =>
            /\ Cardinality({ i \in 1..Len(line) : line[i] = Flag[f] }) = 1
            /\ \E i \in 1..Len(line) :
                 /\ line[i] = Flag[f]
                 /\ i + Len(args[f]) <= Len(line)
                 /\ SubSeq(line, i + 1, i + Len(args[f])) = args[f]
                 /\ EndsAt(line, i + Len(args[f]))

\* C7 happens: a process runs on a record whose lists hold a repeated
\* element and whose paths hold three elements, one of them twice
C7_Witness ==
  \E j \in Launched :
    /\ jobs[j].args.extensions = << Empty, << "t" >>, << "t" >> >>
    /\ Len(jobs[j].args.paths) = 3
    /\ jobs[j].args.paths[1] = jobs[j].args.paths[3]
    /\ jobs[j].args.disablePlugin # << >>

\* C8: a step that changes the per-project store is no saveDefaults, and a
\* step that changes the global store is no step of the handler of a run
\* form submission, no Save As Config and no runLast
C8_StoresIndependent ==
  [][ /\ workspaceState' # workspaceState => ~SaveDefaults
      /\ globalState' # globalState
         => ~(\/ RunSubmit
              \/ \E j \in 1..MaxJobs : SaveResolved(j)
              \/ \E j \in 1..MaxJobs : ExecExit(j)
              \/ SaveAsConfig
              \/ CmdRunLast) ]_vars

\* C8 happens: both stores hold a record, and the defaults have just been
\* saved again after a submission
C8_Witness ==
  /\ globalState # << >>
  /\ workspaceState # << >>
  /\ lastSubmitted # << >>
  /\ out.events = << MsgSaved >>

\* the environment buildSingleFileEnv is to give for these global defaults
\* when the extension host inherited penv
DerivedFrom(globals, penv) ==
  [n \in EnvNames |->
     IF n = "PYENV_VERSION" /\ globals.pyenvVersion # Empty
     THEN << globals.pyenvVersion >>
     ELSE IF n = "SINGLEFILE_CONFIG_PATH" /\ globals.configRoots # << >>
          THEN << Join(globals.configRoots, << ":" >>) >>
          ELSE penv[n]]

\* C9: every process the extension has started (a run, or the --query
\* call) got the inherited environment with PYENV_VERSION and
\* SINGLEFILE_CONFIG_PATH replaced when the global defaults give them, and
\* the inherited environment itself is what the extension host started with
C9_EnvDerived ==
  /\ processEnv \in InheritedEnvs
  /\ \A j \in Launched :
       jobs[j].proc.env = DerivedFrom(jobs[j].globals, processEnv)
  /\ run.pc = "awaitQuery" => run.query.env = DerivedFrom(run.globals, processEnv)

\* C9 happens: two processes run, one with both variables replaced over an
\* inherited SINGLEFILE_CONFIG_PATH
C9_Witness ==
  /\ processEnv = EnvWithConfigPath
  /\ \E j \in Launched :
       /\ jobs[j].proc.env["PYENV_VERSION"] = << Lit("3.10") >>
       /\ jobs[j].proc.env["SINGLEFILE_CONFIG_PATH"] =
            << << "/", "c", ":", "/", "d" >> >>
       /\ jobs[j].proc.env["PATH"] = processEnv["PATH"]

\* C10: with nothing stored, the configuration panel reads the empty global
\* defaults, and the run panel and runLast read the all-empty record (the
\* run panel with the selection as its paths); a step that changes the
\* global store, that fills the empty per-project store, or that changes
\* the per-project store with nothing selected, is no step of a command
\* that reads
C10_FallbackRead ==
  [][ /\ globalState = << >> /\ (CmdConfigure \/ CmdRun \/ CmdRunLast)
         => /\ cfg'.pc = "awaitPyenv"
            /\ cfg'.current = [singleFileRoot |-> << >>, configRoots |-> << >>,
                               pyenvVersion |-> << >>]
      /\ workspaceState = << >> /\ run'.pc = "awaitQuery" /\ CmdRun
         => /\ run'.wsDefaults =
                 [AllEmptyRecord EXCEPT !.paths = run'.wsDefaults.paths]
            /\ ~run'.selected => run'.wsDefaults = AllEmptyRecord
      /\ workspaceState = << >> /\ CmdRunLast
         => \A j \in 1..MaxJobs :
              jobs'[j] # jobs[j] => jobs'[j].args = AllEmptyRecord
      /\ (\/ globalState' # globalState
          \/ workspaceState = << >> /\ workspaceState' # << >>
          \/ ~run'.selected /\ workspaceState' # workspaceState)
         => ~(CmdConfigure \/ CmdRun \/ CmdRunLast \/ PyenvExit \/ QueryExit)
    ]_vars

\* C10 happens: the run panel is open on the all-empty record it read from
\* the empty per-project store
C10_Witness ==
  /\ run.pc = "open"
  /\ ~run.selected
  /\ workspaceState = << >>
  /\ run.wsDefaults = AllEmptyRecord


\* C11: a step that changes the global store is a saveDefaults message, and
\* a saveDefaults message stores the record of the form (the trimmed root,
\* the config roots, the chosen pyenv version) in place of what was stored,
\* shows its notification and disposes the configuration panel
C11_OnlySaveDefaultsWrites ==
  [][ /\ globalState' # globalState => SaveDefaults
      /\ cfg.pc = "open" /\ SaveDefaults
         => /\ globalState' =
                 << [singleFileRoot |-> Trim(cfg.form.singleFileRoot),
                     configRoots    |-> cfg.form.configRoots,
                     pyenvVersion   |-> cfg.form.pyenv] >>
            /\ out'.events = << MsgSaved >>
            /\ cfg'.pc = "closed" ]_vars

\* C11 happens: a record with a root and a config root has just been saved
\* and the configuration panel is gone
C11_Witness ==
  /\ out.events = << MsgSaved >>
  /\ cfg.pc = "closed"
  /\ globalState # << >>
  /\ globalState[1].singleFileRoot # Empty
  /\ globalState[1].configRoots # << >>


\* the key of every field in a saved config
SnakeKey ==
  [outputFile |-> "output_file", paths |-> "paths", config |-> "config",
   extensions |-> "extensions", excludeExtensions |-> "exclude_extensions",
   ignoreErrors |-> "ignore_errors",
   replaceInvalidChars |-> "replace_invalid_chars", formats |-> "formats",
   forceBinaryContent |-> "force_binary_content",
   metadataAdd |-> "metadata_add", metadataRemove |-> "metadata_remove",
   excludeDirs |-> "exclude_dirs", excludeFiles |-> "exclude_files",
   includeDirs |-> "include_dirs", includeFiles |-> "include_files",
   disablePlugin |-> "disable_plugin", depth |-> "depth"]

\* C12: the object Save As Config has just written holds the key of a field
\* exactly when the field of the form settings is a non-empty string, a
\* non-empty list or true, with the value of the field, and no other key
C12_ConfigHoldsGivenFields ==
  out.file # << >> =>
    LET data == out.file[1]
        args == collectSettings(run.form)
    IN  /\ DOMAIN data \subseteq { SnakeKey[f] : f \in AllFields }
        /\ \A f \in AllFields :
             /\ SnakeKey[f] \in DOMAIN data <=> FieldGiven(args, f)
             /\ SnakeKey[f] \in DOMAIN data => data[SnakeKey[f]] = args[f]

\* C12 happens: a config was written from settings with one list given
\* and everything else empty or false
C12_Witness ==
  /\ out.events = << MsgConfigSaved >>
  /\ out.file # << >>
  /\ DOMAIN out.file[1] = { "exclude_extensions" }
  /\ out.file[1]["exclude_extensions"] = << Empty, << "t" >>, << "t" >> >>


\* C13: a saveAsConfig message starts no process, leaves the per-project
\* store and the run panel as they are, and ends in one of three ways:
\* nothing shown and nothing written (the dialog was cancelled), the error
\* shown and nothing written with the panel still open (the write failed),
\* or the file written and its notification shown
C13_SaveAsConfigFrame ==
  [][ run.pc = "open" /\ SaveAsConfig
      => /\ jobs' = jobs
         /\ workspaceState' = workspaceState
         /\ run' = run
         /\ out'.events \in { << >>, << MsgConfigSaved >>, << MsgConfigFailed >> }
         /\ out'.events # << MsgConfigSaved >> => out'.file = << >>
         /\ out'.events = << MsgConfigFailed >> => run'.pc = "open" ]_vars

\* C13 happens: the write has just failed while a run is in flight and a
\* record is stored; the panel is open
C13_Witness ==
  /\ out.events = << MsgConfigFailed >>
  /\ run.pc = "open"
  /\ workspaceState # << >>
  /\ \E j \in 1..MaxJobs : jobs[j].pc = "awaitExec"


\* the lines a process that ended this way wrote, stdout first
Written(exit) ==
  (IF exit.stdout # Empty THEN << exit.stdout >> ELSE << >>)
  \o (IF exit.stderr # Empty THEN << exit.stderr >> ELSE << >>)

\* the notifications that report the end of a run
Reports == { MsgCompleted, MsgFailed, MsgLastStarted }

\* C14: when the process of a run (of the run panel or of runLast) has
\* ended, what it wrote to stdout and then what it wrote to stderr has been
\* appended to the channel after the header, whether it failed or not, and
\* the one report of the end of the run comes after the appends
C14_OutputLoggedBeforeReport ==
  out.kind \in {"panel", "last"} =>
    /\ out.logged = Written(out.exit[1])
    /\ Len(out.events) = Len(out.logged) + 1
    /\ \A i \in 1..Len(out.events) :
         out.events[i] \in Reports <=> i = Len(out.events)
    /\ \A i, k \in 1..Len(out.events) :
         out.events[i] = LogStdout /\ out.events[k] = LogStderr => i < k

\* C14 happens: a runLast process has failed after writing to both streams
C14_Witness ==
  /\ out.kind = "last"
  /\ out.exit # << >>
  /\ out.exit[1].error
  /\ out.logged = << Lit("out"), Lit("err") >>
  /\ out.events = << LogStdout, LogStderr, MsgFailed >>


\* what singlefile.run can be invoked with: the selection that counts
Selections ==
  { IF input.uris # << >> THEN input.uris ELSE input.uri :
      input \in RunCommandInputs }

\* the stored per-project record, the all-empty record when nothing is stored
StoredRecord ==
  IF workspaceState = << >> THEN AllEmptyRecord ELSE workspaceState[1]

\* C15: singlefile.run takes the stored record, with the selection (the
\* multi-selection before the clicked item) as its paths when there is
\* one, and the form that then opens shows exactly these paths, in order,
\* and every other field of that record
C15_FormShowsSelection ==
  [][ /\ run.pc = "closed" /\ run'.pc = "awaitQuery" /\ CmdRun
         => \E sel \in Selections :
              /\ run'.selected = (sel # << >>)
              /\ run'.wsDefaults = IF sel # << >>
                                   THEN [StoredRecord EXCEPT !.paths = sel]
                                   ELSE StoredRecord
      /\ run.pc = "awaitQuery" /\ QueryExit
         => /\ run'.pc = "open"
            /\ run'.form.paths = run.wsDefaults.paths
            /\ \A f \in StringFields \cup FlagFields :
                 run'.form[f] = run.wsDefaults[f]
            /\ \A f \in ListFields :
                 run'.form[f] = Join(run.wsDefaults[f], << "," >>) ]_vars


\* C16: when pyenv has ended, fetchPyenvVersions has resolved and the
\* configuration panel is open: with no version when pyenv failed, and
\* otherwise with the trimmed non-empty lines of its output, in their order
\* (the output of the model is " 3.10", an empty line, "3.11")
C16_PyenvVersionsResolve ==
  out.kind = "pyenv" =>
    /\ cfg.pc = "open"
    /\ out.exit[1].stdout = PyenvStdout
    /\ out.exit[1].versions = IF out.exit[1].error THEN << >>
                              ELSE << << "3.10" >>, << "3.11" >> >>
    /\ cfg.versions = out.exit[1].versions

\* C16 happens: pyenv has failed and the configuration panel is open with
\* no version to choose
C16_Witness ==
  /\ out.kind = "pyenv"
  /\ out.exit[1].error
  /\ cfg.pc = "open"
  /\ cfg.versions = << >>


\* what a step has shown as notifications
Shown(o) == { o.events[i] : i \in 1..Len(o.events) }

\* C17: 'Single-File run completed.' is shown, and the handler disposes the
\* run panel, only in the step where the process of a submission has exited
\* without error; when it has failed, 'Single-File run failed' is shown, the
\* completed notification is not, and the run panel is left as it was;
\* runLast shows its notification only when its process exited without error
C17_CompletedOnlyAfterSuccess ==
  [][ /\ MsgCompleted \in Shown(out')
         => out'.kind = "panel" /\ ~out'.exit[1].error
      /\ MsgLastStarted \in Shown(out')
         => out'.kind = "last" /\ ~out'.exit[1].error
      /\ out'.kind \in {"panel", "last"} /\ out'.exit[1].error
         => /\ MsgFailed \in Shown(out')
            /\ Shown(out') \subseteq {LogStdout, LogStderr, MsgFailed}
            /\ run' = run
      /\ out'.kind \in {"panel", "last"} /\ ~out'.exit[1].error
         => MsgFailed \notin Shown(out')
      /\ run.pc = "open" /\ run'.pc = "closed"
         => \/ out'.kind = "panel" /\ MsgCompleted \in Shown(out')
            \/ CloseRunPanel ]_vars

\* C17 happens: the process of a submission has failed, the failure is
\* shown and the run panel is still open
C17_Witness ==
  /\ out.kind = "panel"
  /\ out.exit[1].error
  /\ MsgFailed \in Shown(out)
  /\ run.pc = "open"


\* the format names of a formats text: its pieces between spaces and commas
FormatNames(text) == FilterNonEmpty(SplitList(text))

\* C18: in the argument list of every process started on a record whose
\* formats text holds format names separated by spaces and/or commas,
\* --formats occurs once and the argument after it is those names joined
\* by single commas
C18_FormatsJoinedByCommas ==
  \A j \in Launched :
    LET names == FormatNames(jobs[j].args.formats)
        line  == jobs[j].proc.args
    IN  names # << >> =>
          /\ Cardinality({ i \in 1..Len(line) : line[i] = Flag.formats }) = 1
          /\ \E i \in 1..(Len(line) - 1) :
               /\ line[i] = Flag.formats
               /\ line[i + 1] = Join(names, << "," >>)


\* a root wrapped in double quotes that names the single-file script, and
\* the root without the quotes
QuotedScript(root) ==
  /\ Len(root) >= 2
  /\ root[1] = "\"" /\ root[Len(root)] = "\""
  /\ EndsWith(SubSeq(root, 2, Len(root) - 1), SingleFileName)

Unquoted(root) == SubSeq(root, 2, Len(root) - 1)

\* C19: when the root of the global defaults names the single-file script
\* and is wrapped in double quotes, the script of the --query call of an
\* open run panel, and of every process runSingleFileCLI starts, is the root
\* without the wrapping quotes
C19_WrappingQuotesRemoved ==
  /\ run.pc # "closed" /\ QuotedScript(run.globals.singleFileRoot)
       => run.query.args[1] = Unquoted(run.globals.singleFileRoot)
  /\ \A j \in Launched :
       QuotedScript(jobs[j].globals.singleFileRoot)
         => jobs[j].proc.args[1] = Unquoted(jobs[j].globals.singleFileRoot)

\* the script the specification text names for a root
ClaimedScript(root) ==
  IF root = Empty THEN << "single-file" >>
  ELSE IF EndsWith(root, << "single-file" >>) THEN root
  ELSE PathJoin(root, << "single-file" >>)

\* C20: the --query call of a run panel and every process runSingleFileCLI
\* starts are given the script the text names for the root of their global
\* defaults; for the global defaults of a started process the query has
\* the same script and the same environment; and a process started from
\* the open run panel has the script and the environment of the query the
\* panel made
C20_QueryAndRunSameTool ==
  /\ run.pc # "closed"
       => run.query.args[1] = ClaimedScript(run.globals.singleFileRoot)
  /\ \A j \in Launched :
       /\ jobs[j].proc.args[1] = ClaimedScript(jobs[j].globals.singleFileRoot)
       /\ jobs[j].proc.args[1] = QueryArgs(jobs[j].globals)[1]
       /\ jobs[j].proc.env = QueryProc(jobs[j].globals, processEnv).env
       /\ jobs[j].kind = "panel" /\ jobs[j].attached /\ run.pc = "open"
            => /\ jobs[j].proc.args[1] = run.query.args[1]
               /\ jobs[j].proc.env = run.query.env

\* C20 happens: a process started from the open run panel runs the script
\* the root names, as the query of the panel did, with both configuration
\* roots and the pyenv version in its environment
C20_Witness ==
  \E j \in Launched :
    /\ jobs[j].kind = "panel" /\ jobs[j].attached /\ run.pc = "open"
    /\ jobs[j].globals.singleFileRoot = << "/", "o", "/", "single-file" >>
    /\ jobs[j].proc.args[1] = << "/", "o", "/", "single-file" >>
    /\ run.query.args[1] = << "/", "o", "/", "single-file" >>
    /\ run.query.env["PYENV_VERSION"] = << Lit("3.10") >>
    /\ jobs[j].proc.env["SINGLEFILE_CONFIG_PATH"] # << >>


\* what fetchQueryData resolves with when it has nothing to give
NoQueryData == [formats |-> << >>, configs |-> << >>]

\* C21: the step in which the query process ends resolves fetchQueryData
\* and creates the run panel, whatever the process did: with no formats and
\* no configs when it failed or printed no JSON, null or an object without
\* keys, and with nothing for the key its object lacks; a run panel waiting
\* for its query changes in no other step; and singlefile.run with a stored
\* root starts the query
C21_QueryAlwaysResolves ==
  [][ /\ out'.kind = "query"
         => /\ run.pc = "awaitQuery" /\ run'.pc = "open"
            /\ run'.knownConfigs = out'.exit[1].data.configs
            /\ out'.exit[1].error
                  \/ out'.exit[1].stdout \in {"garbage", "null", "{}"}
                 => out'.exit[1].data = NoQueryData
            /\ ~out'.exit[1].error /\ out'.exit[1].stdout = "{formats}"
                 => out'.exit[1].data.configs = << >>
            /\ ~out'.exit[1].error /\ out'.exit[1].stdout = "{configs}"
                 => out'.exit[1].data.formats = << >>
      /\ run.pc = "awaitQuery" /\ run' # run => out'.kind = "query"
      /\ run.pc = "closed" /\ StoredRoot # Empty /\ CmdRun
         => run'.pc = "awaitQuery" ]_vars

\* C21 happens: the query printed null, and the run panel is open with no
\* known config
C21_Witness ==
  /\ out.kind = "query"
  /\ ~out.exit[1].error /\ out.exit[1].stdout = "null"
  /\ run.pc = "open"
  /\ run.knownConfigs = << >>


\* the reports of the end of a run among what a step has shown
ReportsShown(o) == { i \in 1..Len(o.events) : o.events[i] \in Reports }

\* C22: every handler of a run submission (of the run form or of runLast)
\* comes to its end, and the step that ends it shows exactly one report:
\* the error message when the process failed, and otherwise the
\* notification of its command
C22_OneOutcomeReported ==
  /\ \A j \in 1..MaxJobs : (jobs[j].pc # "idle") ~> (jobs[j].pc = "idle")
  /\ [][ \A j \in 1..MaxJobs :
           jobs[j].pc # "idle" /\ jobs'[j].pc = "idle"
             => /\ Cardinality(ReportsShown(out')) = 1
                /\ out'.kind = jobs[j].kind
                /\ (MsgFailed \in Shown(out')) = out'.exit[1].error
                /\ (MsgCompleted \in Shown(out'))
                      = (~out'.exit[1].error /\ jobs[j].kind = "panel")
                /\ (MsgLastStarted \in Shown(out'))
                      = (~out'.exit[1].error /\ jobs[j].kind = "last") ]_vars

\* C22 happens: the process of a runLast has exited without error, its one
\* notification is shown and no handler is left running
C22_Witness ==
  /\ out.kind = "last"
  /\ ~out.exit[1].error
  /\ Cardinality(ReportsShown(out)) = 1
  /\ MsgLastStarted \in Shown(out)
  /\ \A j \in 1..MaxJobs : jobs[j].pc = "idle"


\* C23: opening the run panel (with or without an Explorer selection), the
\* end of its query and closing it leave the per-project store as it was,
\* and a runLast after a submission runs the paths that were submitted
C23_SelectionLeavesStore ==
  [][ /\ workspaceState' # workspaceState
         => ~(CmdRun \/ QueryExit \/ CloseRunPanel)
      /\ lastSubmitted # << >> /\ StoredRoot # Empty /\ CmdRunLast
         => \A j \in 1..MaxJobs :
              jobs[j].pc = "idle" /\ jobs'[j].pc = "awaitExec"
                => jobs'[j].args.paths = lastSubmitted[1].paths ]_vars


\* C24: the process of a submitted run form is started with the script and
\* the environment of the global defaults that are stored then (the store
\* does not change between the submission and the start of the process),
\* also when they were saved while the run panel was open
C24_RunUsesStoredGlobals ==
  [][ \A j \in 1..MaxJobs :
        jobs[j].pc = "awaitSave" /\ jobs'[j].pc = "awaitExec"
          => LET globals == getGlobalDefaults(globalState)
             IN  /\ jobs'[j].proc.args[1] = SingleFileExe(globals)
                 /\ jobs'[j].proc.env = buildSingleFileEnv(globals, processEnv) ]_vars


\* the handlers of the open run panel whose external process is running
PanelRunsInFlight ==
  { j \in 1..MaxJobs : /\ jobs[j].kind = "panel" /\ jobs[j].attached
                        /\ jobs[j].pc = "awaitExec" }

\* C25: at most one external process started from the open run panel is
\* running at any time
C25_OneRunPerPanel ==
  run.pc = "open" => Cardinality(PanelRunsInFlight) <= 1

====
